---- MODULE Spec2Model ----
(***************************************************************************)
(* Model of the guild-count scanner (src/main.ts): the cron-triggered run  *)
(* updateAllApplications, its batches and sub-rounds, processApp, and the  *)
(* retry loop of fetchGuildCount.  One action per continuation of the      *)
(* event loop: a fetch response, a timer, a database reply, the            *)
(* continuation of Promise.allSettled.                                     *)
(***************************************************************************)
EXTENDS Integers, Sequences, FiniteSets, TLC

(* ---------------- program constants ---------------- *)
concurrencyLimit == 10
InitialDelay == 1000
MaxDelay == 60000
\* maxRetries of the bounded retry loop (src/unnamed/part_000)
maxRetries == 5
\* concurrency of the worker pool (src/unnamed/part_000)
concurrency == 10

(* ---------------- bounds of the model ---------------- *)
\* longest application list of the small specification
MaxApps == 2
\* runs observed: the initial run and MaxRuns - 1 cron triggers
MaxRuns == 2
\* non-nominal events (429, error, odd body, failed insert, failed listing)
MaxFaults == 2
\* the faults of the window with cron triggers
CronFaults == 1
\* the history counters saturate at this value
CountCap == 2
\* the list and the faults of the multi-batch window
BatchApps == 11
BatchFaults == 1
\* the faults of the single-application window
RetryFaults == 6
\* the faults of the worker-pool window
PoolFaults == 5

Runs == 1..MaxRuns

Min(a, b) == IF a < b THEN a ELSE b

(* ---------------- JavaScript values ---------------- *)
\* a JS number: an integer or NaN
Num(n) == [nan |-> FALSE, v |-> n]
NaN == [nan |-> TRUE, v |-> 0]

\* An optional number (number | null | undefined) is <<>> or <<n>>.
Null == <<>>

\* StrWhiteSpaceChar of ECMAScript among the characters a header value can
\* hold (Headers.get returns a byte string, code points up to U+00FF): TAB, LF,
\* VT, FF, CR, SP and NBSP.  The white space above U+00FF (U+FEFF and the
\* other Zs characters, U+2028, U+2029) cannot occur in a header value.
StrVT == ""
StrNBSP == " "
StrWhiteSpaceChar == {"\t", "\n", StrVT, "\f", "\r", " ", StrNBSP}

\* res.headers.get('Retry-After'): null or a string (a sequence of characters)
Absent == [present |-> FALSE, text |-> <<>>]
Header(t) == [present |-> TRUE, text |-> t]
HeaderTexts ==
    { <<>>, <<"5">>, <<"x">>, <<"5", "x">>, <<" ", "5">>, <<"1", "5">>,
      <<"\t", "5">>, <<"\n", StrNBSP, "5">> }
Headers == {Absent} \cup {Header(t) : t \in HeaderTexts}

Digits == {"0", "1", "2", "3", "4", "5", "6", "7", "8", "9"}
DigitVal(c) ==
    CASE c = "0" -> 0 [] c = "1" -> 1 [] c = "2" -> 2 [] c = "3" -> 3
      [] c = "4" -> 4 [] c = "5" -> 5 [] c = "6" -> 6 [] c = "7" -> 7
      [] c = "8" -> 8 [] c = "9" -> 9

RECURSIVE SkipSpace(_)
SkipSpace(s) ==
    IF s # <<>> /\ Head(s) \in StrWhiteSpaceChar THEN SkipSpace(Tail(s)) ELSE s

RECURSIVE DigitPrefix(_)
DigitPrefix(s) ==
    IF s # <<>> /\ Head(s) \in Digits
    THEN <<Head(s)>> \o DigitPrefix(Tail(s))
    ELSE <<>>

RECURSIVE DigitsValue(_, _)
DigitsValue(s, acc) ==
    IF s = <<>> THEN acc ELSE DigitsValue(Tail(s), 10 * acc + DigitVal(Head(s)))

\* parseInt(text, 10): leading white space, an optional sign, then the longest
\* run of digits; NaN when there is no digit.
parseInt(text) ==
    LET t == SkipSpace(text)
        signed == t # <<>> /\ Head(t) \in {"-", "+"}
        neg == t # <<>> /\ Head(t) = "-"
        d == DigitPrefix(IF signed THEN Tail(t) ELSE t)
    IN  IF d = <<>> THEN NaN
        ELSE Num((IF neg THEN -1 ELSE 1) * DigitsValue(d, 0))

\* x * 1000 on JS numbers
Times1000(x) == IF x.nan THEN NaN ELSE Num(x.v * 1000)

\* truthiness of a string | null
Truthy(h) == h.present /\ h.text # <<>>

\* const waitTime = retryAfter ? parseInt(retryAfter, 10) * 1000 : delay;
WaitTime(retryAfter, delay) ==
    IF Truthy(retryAfter) THEN Times1000(parseInt(retryAfter.text)) ELSE Num(delay)

\* mutant: the doubling without its cap
NextDelayUncapped(delay) == delay * 2

\* delay = Math.min(delay * 2, 60000)
NextDelay(delay) == Min(delay * 2, MaxDelay)

(* ---------------- the remote endpoint ---------------- *)
\* The JSON body of a 2xx response: directory_entry.guild_count and
\* guild.approximate_member_count, each a number or missing.
Body(gc, amc) == [guild_count |-> gc, approximate_member_count |-> amc]
NominalBody == Body(<<42>>, Null)
Bodies ==
    { NominalBody, Body(<<42>>, <<7>>), Body(Null, <<7>>), Body(<<0>>, Null),
      Body(Null, Null) }

\* mutant: the two shapes are inspected in the other order
GuildCountMemberFirst(data) ==
    IF data.approximate_member_count # Null THEN data.approximate_member_count
    ELSE IF data.guild_count # Null THEN data.guild_count
    ELSE Null

\* the value fetchGuildCount returns for a 2xx body
GuildCountOf(data) ==
    IF data.guild_count # Null THEN data.guild_count
    ELSE IF data.approximate_member_count # Null THEN data.approximate_member_count
    ELSE Null

(* ---------------- applications ---------------- *)
BotIds == {"", "X"}
App(k, b) == [id |-> k, bot_id |-> b]
\* the lists of n rows: the first row may lack a bot_id
AppLists(n) ==
    { [k \in 1..n |-> App(k, IF k = 1 THEN b ELSE "X")] : b \in BotIds }

VARIABLES
    env,             \* what the environment does in the observed window
    dbApps,          \* rows of the applications table
    budget,          \* non-nominal events the environment may still produce
    pc,              \* per run: where updateAllApplications stands
    apps,            \* per run: const apps
    i,               \* per run: the batch loop's i
    batchToProcess,  \* per run: the applications of the current round
    batchIndexes,    \* per run: their offsets in the original batch
    slots,           \* per run: the round's processApp promises (batchResults once settled)
    results,         \* per run: const results
    report,          \* per run: <<>> or <<[total, successful, failed]>>
    listed,          \* history, per run: how getApplications settled
    fetchCount,      \* history, per run and application: fetch() calls issued
    sunk,            \* history, per run and application: recordGuildCount calls
    rounds,          \* history, per run: rounds of the current batch started so far
    batchLog,        \* history, per run: the list positions of each batch entered
    succeeded,       \* history, per run: applications whose processApp returned success
    poolPc,          \* worker-pool revision: where updateAllApplications stands
    cursor,          \* worker-pool revision: the shared let i
    workers,         \* worker-pool revision: the chains of next() calls
    poolFetched,     \* history, per application: fetch() calls of the pool run
    poolClaimed,     \* history, per application: fetchGuildCount calls of the pool run
    poolRet,         \* history, per application: how fetchGuildCount ended
    poolSunk         \* history, per application: recordGuildCount calls of the pool run

poolVars == <<poolPc, cursor, workers, poolFetched, poolClaimed, poolRet, poolSunk>>
mainVars == <<pc, apps, i, batchToProcess, batchIndexes, slots, results, report,
              listed, fetchCount, sunk, rounds, batchLog, succeeded>>
vars == <<env, dbApps, budget, mainVars, poolVars>>

Bump(n) == Min(n + 1, CountCap)
Log(s, e) == IF Len(s) < CountCap THEN Append(s, e) ELSE s

(* ---------------- fetchGuildCount and processApp ---------------- *)
\* A slot is one processApp call of the current round.  st is where it stands:
\*   "fetch"      awaiting fetch(url)
\*   "rateSleep"  awaiting the timer after a 429
\*   "errSleep"   awaiting the timer in the catch block
\*   "record"     awaiting recordGuildCount
\*   "ok"         fulfilled with success: true
\*   "nov"        fulfilled with success: false
\*   "rej"        rejected
\* errs and rates are history: the errors and the 429 responses the running
\* call of fetchGuildCount has met (counted up to maxRetries + 1); like delay
\* they go when the call returns.  data and got are history too: the 2xx body
\* the call ended on (<<>> before) and the value fetchGuildCount returned.
StartSlot(app, index) ==
    [app |-> app, index |-> index, st |-> "fetch", delay |-> InitialDelay,
     wait |-> Num(0), hdr |-> Absent, val |-> Null, errs |-> 0, rates |-> 0,
     data |-> <<>>, got |-> Null]

Seen(n) == Min(n + 1, maxRetries + 1)

InFlightStates == {"fetch", "rateSleep", "errSleep", "record"}
SettledStates == {"ok", "nov", "rej"}

\* if (res.status === 429) { ... await new Promise(r => setTimeout(r, waitTime));
OnRateLimited(s, retryAfter) ==
    [s EXCEPT !.st = "rateSleep", !.wait = WaitTime(retryAfter, s.delay),
              !.hdr = retryAfter, !.rates = Seen(@)]

\* catch (e) { ... await new Promise(r => setTimeout(r, delay));
OnError(s) ==
    [s EXCEPT !.st = "errSleep", !.wait = Num(s.delay), !.errs = Seen(@)]

\* mutant: delay is one variable shared by all the calls
SharedDelay ==
    LET all == {InitialDelay} \cup
               UNION {{slots[r][k].delay : k \in DOMAIN slots[r]} : r \in Runs}
    IN  CHOOSE d \in all : \A e \in all : e <= d
OnTimerSharedDelay(s) ==
    [s EXCEPT !.st = "fetch", !.delay = NextDelay(SharedDelay), !.wait = Num(0),
              !.hdr = Absent]

\* after either timer: the delay doubles and the loop issues the next fetch
OnTimer(s) ==
    [s EXCEPT !.st = "fetch", !.delay = NextDelay(s.delay), !.wait = Num(0),
              !.hdr = Absent]

\* if (guildCount !== null && app.bot_id)
ShouldRecord(guildCount, app) == guildCount # Null /\ app.bot_id # ""

\* a 2xx body: fetchGuildCount returns, processApp records or gives up
OnBody(s, data) ==
    LET guildCount == GuildCountOf(data)
    IN  IF ShouldRecord(guildCount, s.app)
        THEN [s EXCEPT !.st = "record", !.val = guildCount,
                       !.delay = InitialDelay, !.errs = 0, !.rates = 0,
                       !.data = <<data>>, !.got = guildCount]
        ELSE [s EXCEPT !.st = "nov", !.val = Null, !.delay = InitialDelay,
                       !.errs = 0, !.rates = 0,
                       !.data = <<data>>, !.got = guildCount]

\* recordGuildCount settled
OnInserted(s) == [s EXCEPT !.st = "ok"]
OnInsertFailed(s) == [s EXCEPT !.st = "rej", !.val = Null]

(* ---------------- updateAllApplications ---------------- *)
\* mutant: the whole round is resubmitted, not only its failed applications
PickAll(seq, at) == seq

\* failedApps and failedBatchIndexes: the entries at the failed indexes
Pick(seq, at) == [k \in 1..Len(at) |-> seq[at[k]]]

\* mutant: the slice takes one application too many
BatchEndOffByOne(from, total) == Min(from + concurrencyLimit + 1, total)

\* Math.min(i + concurrencyLimit, totalApps)
BatchEnd(from, total) == Min(from + concurrencyLimit, total)

\* mutant: no batching, the whole rest of the list is one batch
BatchSliceRest(list, from) == SubSeq(list, from + 1, Len(list))

\* mutant: the slice starts one application late
BatchSliceLate(list, from) == SubSeq(list, from + 2, BatchEnd(from, Len(list)))

\* const batch = apps.slice(i, Math.min(i + concurrencyLimit, totalApps));
BatchSlice(list, from) == SubSeq(list, from + 1, BatchEnd(from, Len(list)))

\* Promise.allSettled(batchPromises) has resolved
AllSettled(ss) == \A k \in DOMAIN ss : ss[k].st \in SettledStates

\* mutant: the success flag is read the wrong way round
FailedInverted(s) == s.st = "rej" \/ s.st = "ok"

\* result.status !== 'fulfilled' || !result.value || !result.value.success
Failed(s) == s.st # "ok"

\* failedIndexes
FailedIndexes(ss) ==
    SelectSeq([k \in 1..Len(ss) |-> k], LAMBDA k : Failed(ss[k]))

\* the PromiseSettledResult of a settled slot
Settled(s) ==
    [status |-> IF s.st = "rej" THEN "rejected" ELSE "fulfilled",
     success |-> s.st = "ok", id |-> s.app.id, guildCount |-> s.val]

\* results.push(...batchResults)
PushResults(res, ss) == res \o [k \in 1..Len(ss) |-> Settled(ss[k])]

\* the tally of lines 147-155
Counted(r) == r.status = "fulfilled" /\ r.success
Tally(res, total) ==
    LET good == {k \in DOMAIN res : Counted(res[k])}
    IN  [total |-> total, successful |-> Cardinality(good),
         failed |-> Len(res) - Cardinality(good)]

(* ---------------- initial states ---------------- *)
\* State at the end of module evaluation: the cron job is registered (lines
\* 163-171) and the initial run (line 174) awaits getApplications.
InitRuns ==
    /\ pc = [r \in Runs |-> IF r = 1 THEN "listing" ELSE "idle"]
    /\ apps = [r \in Runs |-> <<>>]
    /\ i = [r \in Runs |-> 0]
    /\ batchToProcess = [r \in Runs |-> <<>>]
    /\ batchIndexes = [r \in Runs |-> <<>>]
    /\ slots = [r \in Runs |-> <<>>]
    /\ results = [r \in Runs |-> <<>>]
    /\ report = [r \in Runs |-> <<>>]
    /\ listed = [r \in Runs |-> "none"]
    /\ fetchCount = [r \in Runs |-> [a \in DOMAIN dbApps |-> 0]]
    /\ sunk = [r \in Runs |-> [a \in DOMAIN dbApps |-> <<>>]]
    /\ rounds = [r \in Runs |-> 0]
    /\ batchLog = [r \in Runs |-> <<>>]
    /\ succeeded = [r \in Runs |-> {}]

\* The environment of a window: the applications whose requests and inserts
\* may go wrong, those among them whose fetch or insert may reject, the
\* Retry-After headers and 2xx bodies the endpoint serves, and the number of
\* cron ticks that fall into the window.
Env(flaky, throws, headers, bodies, ticks) ==
    [flaky |-> flaky, throws |-> throws, headers |-> headers, bodies |-> bodies,
     ticks |-> ticks]

\* The initial run alone over a short list, with every kind of fault.
InitSmall ==
    /\ dbApps \in UNION {AppLists(n) : n \in 0..MaxApps}
    /\ budget = MaxFaults
    /\ env = Env(DOMAIN dbApps, DOMAIN dbApps, Headers, Bodies, 0)

\* The initial run and the cron runs over one application.
InitCron ==
    /\ dbApps = <<App(1, "X")>>
    /\ budget = CronFaults
    /\ env = Env({1}, {1}, {Absent}, {NominalBody, Body(Null, Null)}, MaxRuns - 1)

\* One run over a list longer than a batch; only the first and the last
\* application meet faults, and only the calls of the last may reject.
InitBatch ==
    /\ dbApps = [k \in 1..BatchApps |-> App(k, "X")]
    /\ budget = BatchFaults
    /\ env = Env({1, BatchApps}, {BatchApps}, {}, {NominalBody, Body(Null, Null)}, 0)

\* One run over one application that meets many faults.
InitRetry ==
    /\ dbApps = <<App(1, "X")>>
    /\ budget = RetryFaults
    /\ env = Env({1}, {1}, {Absent, Header(<<"5">>)}, {NominalBody, Body(Null, Null)}, 0)

\* poolRet[a] is history: how the fetchGuildCount call for application a ended
\* ("value", "novalue", "exhausted": null after the retries, "none": not yet)
\* and the errors and 429 responses it had met.
NoReturn == [ret |-> "none", errs |-> 0, rates |-> 0]
Returned(w, how) == [ret |-> how, errs |-> w.errs, rates |-> w.rates]

\* the worker-pool revision is not running
PoolOff ==
    /\ poolPc = "off"
    /\ cursor = 0
    /\ workers = <<>>
    /\ poolFetched = [a \in DOMAIN dbApps |-> 0]
    /\ poolClaimed = [a \in DOMAIN dbApps |-> 0]
    /\ poolRet = [a \in DOMAIN dbApps |-> NoReturn]
    /\ poolSunk = [a \in DOMAIN dbApps |-> <<>>]

Init ==
    /\ InitSmall \/ InitCron \/ InitBatch \/ InitRetry
    /\ InitRuns
    /\ PoolOff

(* ---------------- actions ---------------- *)
\* the environment may still let the call of slot s go wrong
Faulty(s) == budget > 0 /\ s.app.id \in env.flaky
\* the environment may still let the fetch or the insert of slot s reject
Throws(s) == Faulty(s) /\ s.app.id \in env.throws

\* mutant: the index is the place in the round, not the kept batch index
StartRoundByPlace(list, idxs, base) ==
    [k \in 1..Len(list) |-> StartSlot(list[k], base + k - 1)]

\* The round's processApp calls, all started in one synchronous map().
StartRound(list, idxs, base) ==
    [k \in 1..Len(list) |-> StartSlot(list[k], base + idxs[k])]

CountFetches(fc, list) ==
    [a \in DOMAIN fc |->
        IF \E k \in DOMAIN list : list[k].id = a THEN Bump(fc[a]) ELSE fc[a]]

\* the positions in the list (0, 1, ...) of the applications of a batch
Positions(batch) == [k \in 1..Len(batch) |-> batch[k].id - 1]

\* let batchToProcess = batch; let batchIndexes = batch.map((_, idx) => idx);
\* followed by the first round of the batch that starts at `from`
EnterBatch(r, list, from) ==
    LET batch == BatchSlice(list, from)
        idxs == [k \in 1..Len(batch) |-> k - 1]
    IN  /\ i' = [i EXCEPT ![r] = from]
        /\ batchToProcess' = [batchToProcess EXCEPT ![r] = batch]
        /\ batchIndexes' = [batchIndexes EXCEPT ![r] = idxs]
        /\ slots' = [slots EXCEPT ![r] = StartRound(batch, idxs, from)]
        /\ fetchCount' = [fetchCount EXCEPT ![r] = CountFetches(@, batch)]
        /\ rounds' = [rounds EXCEPT ![r] = 1]
        /\ batchLog' = [batchLog EXCEPT ![r] = Append(@, Positions(batch))]
        /\ pc' = [pc EXCEPT ![r] = "round"]

\* the tally and the log lines after the batch loop; the promise fulfils
Finish(r, res, total) ==
    /\ report' = [report EXCEPT ![r] = <<Tally(res, total)>>]
    /\ pc' = [pc EXCEPT ![r] = "done"]

\* cron.schedule('0 */6 * * *', ...) fires: the callback calls
\* updateAllApplications, which runs up to its first await.
CronTrigger(r) ==
    /\ r > 1 /\ r - 1 <= env.ticks
    /\ pc[r] = "idle"
    /\ pc[r - 1] # "idle"
    /\ pc' = [pc EXCEPT ![r] = "listing"]
    /\ UNCHANGED <<poolVars, env, dbApps, budget, apps, i, batchToProcess, batchIndexes, slots,
                   results, report, listed, fetchCount, sunk>>
    /\ UNCHANGED <<rounds, batchLog, succeeded>>

\* getApplications resolves with the rows
ListOk(r) ==
    /\ pc[r] = "listing"
    /\ listed' = [listed EXCEPT ![r] = "ok"]
    /\ apps' = [apps EXCEPT ![r] = dbApps]
    /\ IF Len(dbApps) = 0
       THEN /\ Finish(r, results[r], 0)
            /\ UNCHANGED <<i, batchToProcess, batchIndexes, slots, fetchCount,
                           rounds, batchLog>>
       ELSE /\ EnterBatch(r, dbApps, 0)
            /\ UNCHANGED report
    /\ UNCHANGED <<poolVars, env, dbApps, budget, results, sunk, succeeded>>

\* mutant: the rejection is swallowed and the run goes on with no rows
ListFailSwallowed(r) ==
    /\ pc[r] = "listing"
    /\ budget > 0
    /\ budget' = budget - 1
    /\ listed' = [listed EXCEPT ![r] = "rejected"]
    /\ Finish(r, results[r], 0)
    /\ UNCHANGED <<poolVars, env, dbApps, apps, i, batchToProcess, batchIndexes, slots,
                   results, fetchCount, sunk>>
    /\ UNCHANGED <<rounds, batchLog, succeeded>>

\* getApplications rejects: the rejection leaves updateAllApplications and the
\* caller's catch (lines 168-170, 176-178) logs it
ListFail(r) ==
    /\ pc[r] = "listing"
    /\ budget > 0
    /\ budget' = budget - 1
    /\ listed' = [listed EXCEPT ![r] = "rejected"]
    /\ pc' = [pc EXCEPT ![r] = "failed"]
    /\ UNCHANGED <<poolVars, env, dbApps, apps, i, batchToProcess, batchIndexes, slots,
                   results, report, fetchCount, sunk>>
    /\ UNCHANGED <<rounds, batchLog, succeeded>>

\* fetch(url) resolves with status 429
FetchRateLimited(r, k) ==
    /\ pc[r] = "round" /\ k \in DOMAIN slots[r] /\ slots[r][k].st = "fetch"
    /\ Faulty(slots[r][k])
    /\ budget' = budget - 1
    /\ \E h \in env.headers :
          slots' = [slots EXCEPT ![r][k] = OnRateLimited(@, h)]
    /\ UNCHANGED <<poolVars, env, dbApps, pc, apps, i, batchToProcess, batchIndexes, results,
                   report, listed, fetchCount, sunk>>
    /\ UNCHANGED <<rounds, batchLog, succeeded>>

\* fetch(url) rejects (network, timeout), the status is another non-2xx, or
\* res.json() rejects
FetchError(r, k) ==
    /\ pc[r] = "round" /\ k \in DOMAIN slots[r] /\ slots[r][k].st = "fetch"
    /\ Throws(slots[r][k])
    /\ budget' = budget - 1
    /\ slots' = [slots EXCEPT ![r][k] = OnError(@)]
    /\ UNCHANGED <<poolVars, env, dbApps, pc, apps, i, batchToProcess, batchIndexes, results,
                   report, listed, fetchCount, sunk>>
    /\ UNCHANGED <<rounds, batchLog, succeeded>>

\* the timer of either sleep fires
TimerFires(r, k) ==
    /\ pc[r] = "round" /\ k \in DOMAIN slots[r]
    /\ slots[r][k].st \in {"rateSleep", "errSleep"}
    /\ slots' = [slots EXCEPT ![r][k] = OnTimer(@)]
    /\ fetchCount' = [fetchCount EXCEPT ![r][slots[r][k].app.id] = Bump(@)]
    /\ UNCHANGED <<poolVars, env, dbApps, budget, pc, apps, i, batchToProcess, batchIndexes,
                   results, report, listed, sunk>>
    /\ UNCHANGED <<rounds, batchLog, succeeded>>

\* fetch(url) resolves 2xx and res.json() with `data`
FetchBody(r, k) ==
    /\ pc[r] = "round" /\ k \in DOMAIN slots[r] /\ slots[r][k].st = "fetch"
    /\ \E data \in env.bodies :
          LET s == OnBody(slots[r][k], data)
          IN  /\ data = NominalBody \/ Faulty(slots[r][k])
              /\ budget' = IF data = NominalBody THEN budget ELSE budget - 1
              /\ slots' = [slots EXCEPT ![r][k] = s]
              /\ sunk' = IF s.st = "record"
                         THEN [sunk EXCEPT ![r][s.app.id] =
                                  Log(@, <<s.app.bot_id, s.val>>)]
                         ELSE sunk
    /\ UNCHANGED <<poolVars, env, dbApps, pc, apps, i, batchToProcess, batchIndexes, results,
                   report, listed, fetchCount>>
    /\ UNCHANGED <<rounds, batchLog, succeeded>>

\* the INSERT of recordGuildCount succeeds
InsertOk(r, k) ==
    /\ pc[r] = "round" /\ k \in DOMAIN slots[r] /\ slots[r][k].st = "record"
    /\ slots' = [slots EXCEPT ![r][k] = OnInserted(@)]
    /\ UNCHANGED <<poolVars, env, dbApps, budget, pc, apps, i, batchToProcess, batchIndexes,
                   results, report, listed, fetchCount, sunk>>
    /\ succeeded' = [succeeded EXCEPT ![r] = @ \cup {slots[r][k].app.id}]
    /\ UNCHANGED <<rounds, batchLog>>

\* the INSERT of recordGuildCount rejects
InsertFail(r, k) ==
    /\ pc[r] = "round" /\ k \in DOMAIN slots[r] /\ slots[r][k].st = "record"
    /\ Throws(slots[r][k])
    /\ budget' = budget - 1
    /\ slots' = [slots EXCEPT ![r][k] = OnInsertFailed(@)]
    /\ UNCHANGED <<poolVars, env, dbApps, pc, apps, i, batchToProcess, batchIndexes, results,
                   report, listed, fetchCount, sunk>>
    /\ UNCHANGED <<rounds, batchLog, succeeded>>

\* the continuation of `await Promise.allSettled(batchPromises)` when some
\* application failed: lines 113-130, up to the 2 s sleep.  failedApps and
\* failedBatchIndexes are locals computed from batchResults (slots), which
\* nothing changes during the sleep; batchToProcess and batchIndexes keep the
\* round's values until the sleep is over.
RoundFailed(r) ==
    /\ pc[r] = "round" /\ AllSettled(slots[r])
    /\ FailedIndexes(slots[r]) # <<>>
    /\ pc' = [pc EXCEPT ![r] = "subSleep"]
    /\ UNCHANGED <<poolVars, env, dbApps, budget, apps, i, batchToProcess, batchIndexes,
                   slots, results, report, listed, fetchCount, sunk>>
    /\ UNCHANGED <<rounds, batchLog, succeeded>>

\* the 2 s sleep of line 130 is over: batchToProcess = failedApps;
\* batchIndexes = failedBatchIndexes; and the next sub-round starts (107-110)
SubRound(r) ==
    /\ pc[r] = "subSleep"
    /\ batchToProcess' =
          [batchToProcess EXCEPT ![r] = Pick(@, FailedIndexes(slots[r]))]
    /\ batchIndexes' =
          [batchIndexes EXCEPT ![r] = Pick(@, FailedIndexes(slots[r]))]
    /\ slots' = [slots EXCEPT ![r] =
                    StartRound(batchToProcess'[r], batchIndexes'[r], i[r])]
    /\ fetchCount' = [fetchCount EXCEPT ![r] = CountFetches(@, batchToProcess'[r])]
    /\ rounds' = [rounds EXCEPT ![r] = Seen(@)]
    /\ pc' = [pc EXCEPT ![r] = "round"]
    /\ UNCHANGED <<poolVars, env, dbApps, budget, apps, i,
                   results, report, listed, sunk, batchLog, succeeded>>

\* the continuation of `await Promise.allSettled(batchPromises)` when nothing
\* failed: break, push the results, then sleep before the next batch or finish
RoundSucceeded(r) ==
    /\ pc[r] = "round" /\ AllSettled(slots[r])
    /\ FailedIndexes(slots[r]) = <<>>
    /\ results' = [results EXCEPT ![r] = PushResults(@, slots[r])]
    /\ IF i[r] + concurrencyLimit < Len(apps[r])
       THEN /\ pc' = [pc EXCEPT ![r] = "batchSleep"]
            /\ UNCHANGED report
       ELSE Finish(r, results'[r], Len(apps[r]))
    /\ UNCHANGED <<poolVars, env, dbApps, budget, apps, i, batchToProcess, batchIndexes, slots,
                   listed, fetchCount, sunk>>
    /\ UNCHANGED <<rounds, batchLog, succeeded>>

\* the 2 s sleep of line 140 is over: i += concurrencyLimit, the next batch
NextBatch(r) ==
    /\ pc[r] = "batchSleep"
    /\ EnterBatch(r, apps[r], i[r] + concurrencyLimit)
    /\ UNCHANGED <<poolVars, env, dbApps, budget, apps, results, report, listed, sunk,
                   succeeded>>

RunStep(r) ==
    \/ ListOk(r)
    \/ ListFail(r)
    \/ \E k \in 1..concurrencyLimit :
          \/ FetchRateLimited(r, k)
          \/ FetchError(r, k)
          \/ TimerFires(r, k)
          \/ FetchBody(r, k)
          \/ InsertOk(r, k)
          \/ InsertFail(r, k)
    \/ RoundFailed(r)
    \/ SubRound(r)
    \/ RoundSucceeded(r)
    \/ NextBatch(r)

Next == \E r \in Runs : CronTrigger(r) \/ RunStep(r)

Spec == Init /\ [][Next]_vars

(* ---------------- the worker-pool revision ---------------- *)
\* src/unnamed/part_000, lines 20-98: fetchGuildCount with a bounded retry
\* loop, and updateAllApplications as `concurrency` chains of next() calls
\* that share the cursor i.
\*
\* A worker is one chain of next() calls.  st is where it stands:
\*   "fetch", "rateSleep", "errSleep", "record"   as for a slot
\*   "returned"   next() found the list exhausted and the chain has returned
\*   "threw"      recordGuildCount rejected and the chain has rejected
\* app is the position of the application it works on (0: none).
IdleWorker ==
    [st |-> "returned", app |-> 0, attempt |-> 0, delay |-> InitialDelay,
     wait |-> Num(0), hdr |-> Absent, val |-> Null, errs |-> 0, rates |-> 0]

\* mutant: the cursor is not advanced by a claim
CursorStuck(at, list) == at

\* next(): if (i >= apps.length) return; const app = apps[i++]; then
\* fetchGuildCount(app.id) up to its first fetch
Claim(w, at, list) ==
    IF at >= Len(list)
    THEN [w EXCEPT !.st = "returned"]
    ELSE [w EXCEPT !.st = "fetch", !.app = at + 1, !.attempt = 0,
                   !.delay = InitialDelay, !.wait = Num(0), !.hdr = Absent,
                   !.val = Null, !.errs = 0, !.rates = 0]
CursorAfter(at, list) == IF at >= Len(list) THEN at ELSE at + 1

\* Array(concurrency).fill(0).map(next): the chains start one after the other
RECURSIVE StartWorkers(_, _, _)
StartWorkers(n, at, list) ==
    IF n = 0 THEN <<>>
    ELSE <<Claim(IdleWorker, at, list)>>
             \o StartWorkers(n - 1, CursorAfter(at, list), list)

\* the cursor once the n chains have started
RECURSIVE CursorAfterStart(_, _, _)
CursorAfterStart(n, at, list) ==
    IF n = 0 THEN at ELSE CursorAfterStart(n - 1, CursorAfter(at, list), list)

\* the chains that started on the application at position a
StartedOn(ws, a) == {k \in DOMAIN ws : ws[k].st = "fetch" /\ ws[k].app = a}

\* while (attempt < maxRetries)
LoopGoesOn(attempt) == attempt < maxRetries

\* the 429 branch up to its sleep (lines 28-33)
PoolOnRateLimited(w, retryAfter) ==
    [w EXCEPT !.st = "rateSleep", !.wait = WaitTime(retryAfter, w.delay),
              !.hdr = retryAfter, !.rates = Seen(@)]

\* catch (e) { if (attempt >= maxRetries - 1) ... return null (lines 51-54)
GivesUp(attempt) == attempt >= maxRetries - 1

\* the catch block up to its sleep (lines 55-56)
PoolOnError(w) ==
    [w EXCEPT !.st = "errSleep", !.wait = Num(w.delay), !.errs = Seen(@)]

\* after either sleep: attempt++ and delay *= 2 (lines 34-35, 57-58)
PoolOnTimer(w) ==
    [w EXCEPT !.attempt = @ + 1, !.delay = @ * 2, !.wait = Num(0),
              !.hdr = Absent]

PoolBump(f, a) == [f EXCEPT ![a] = Bump(@)]

\* fetchGuildCount returned null, or a number that is not recorded: the
\* chain goes on with await next()
GoOn(k, w) ==
    /\ workers' = [workers EXCEPT ![k] = Claim(w, cursor, dbApps)]
    /\ cursor' = CursorAfter(cursor, dbApps)
    /\ poolFetched' = IF cursor < Len(dbApps)
                      THEN PoolBump(poolFetched, cursor + 1)
                      ELSE poolFetched
    /\ poolClaimed' = IF cursor < Len(dbApps)
                      THEN PoolBump(poolClaimed, cursor + 1)
                      ELSE poolClaimed

\* getApplications resolves: the chains start (lines 72-85)
PoolListOk ==
    /\ poolPc = "listing"
    /\ poolPc' = "running"
    /\ workers' = StartWorkers(concurrency, 0, dbApps)
    /\ cursor' = CursorAfterStart(concurrency, 0, dbApps)
    /\ poolFetched' = [a \in DOMAIN dbApps |->
                          IF a <= concurrency THEN 1 ELSE 0]
    /\ poolClaimed' = [a \in DOMAIN dbApps |->
                          Min(Cardinality(StartedOn(workers', a)), CountCap)]
    /\ UNCHANGED <<mainVars, env, dbApps, budget, poolRet, poolSunk>>

\* getApplications rejects
PoolListFail ==
    /\ poolPc = "listing"
    /\ budget > 0
    /\ budget' = budget - 1
    /\ poolPc' = "failed"
    /\ UNCHANGED <<mainVars, env, dbApps, cursor, workers, poolFetched, poolClaimed,
                   poolRet, poolSunk>>

PoolFaulty(w) == budget > 0 /\ w.app \in env.flaky
Working(k, state) ==
    /\ poolPc \in {"running", "failed"}
    /\ k \in DOMAIN workers
    /\ workers[k].st = state

\* fetch(url) resolves with status 429
PoolRateLimited(k) ==
    /\ Working(k, "fetch")
    /\ PoolFaulty(workers[k])
    /\ budget' = budget - 1
    /\ \E h \in env.headers :
          workers' = [workers EXCEPT ![k] = PoolOnRateLimited(@, h)]
    /\ UNCHANGED <<mainVars, env, dbApps, poolPc, cursor, poolFetched, poolClaimed,
                   poolRet, poolSunk>>

\* the timer of the 429 branch fires: attempt++, delay *= 2, continue
PoolRateTimer(k) ==
    /\ Working(k, "rateSleep")
    /\ LET w == PoolOnTimer(workers[k])
       IN  IF LoopGoesOn(w.attempt)
           THEN /\ workers' = [workers EXCEPT ![k] = [w EXCEPT !.st = "fetch"]]
                /\ poolFetched' = PoolBump(poolFetched, w.app)
                /\ UNCHANGED <<cursor, poolRet, poolClaimed>>
           ELSE /\ GoOn(k, w)
                /\ poolRet' = [poolRet EXCEPT ![w.app] = Returned(w, "exhausted")]
    /\ UNCHANGED <<mainVars, env, dbApps, budget, poolPc, poolSunk>>

\* fetch(url) rejects, the status is another non-2xx, or res.json() rejects
PoolFetchError(k) ==
    /\ Working(k, "fetch")
    /\ PoolFaulty(workers[k])
    /\ budget' = budget - 1
    /\ IF GivesUp(workers[k].attempt)
       THEN LET w == [workers[k] EXCEPT !.errs = Seen(@)]
            IN  /\ GoOn(k, w)
                /\ poolRet' = [poolRet EXCEPT ![w.app] = Returned(w, "exhausted")]
       ELSE /\ workers' = [workers EXCEPT ![k] = PoolOnError(@)]
            /\ UNCHANGED <<cursor, poolFetched, poolClaimed, poolRet>>
    /\ UNCHANGED <<mainVars, env, dbApps, poolPc, poolSunk>>

\* the timer of the catch block fires: delay *= 2, attempt++, next iteration
PoolErrTimer(k) ==
    /\ Working(k, "errSleep")
    /\ LET w == PoolOnTimer(workers[k])
       IN  IF LoopGoesOn(w.attempt)
           THEN /\ workers' = [workers EXCEPT ![k] = [w EXCEPT !.st = "fetch"]]
                /\ poolFetched' = PoolBump(poolFetched, w.app)
                /\ UNCHANGED <<cursor, poolRet, poolClaimed>>
           ELSE /\ GoOn(k, w)
                /\ poolRet' = [poolRet EXCEPT ![w.app] = Returned(w, "exhausted")]
    /\ UNCHANGED <<mainVars, env, dbApps, budget, poolPc, poolSunk>>

\* fetch(url) resolves 2xx and res.json() with `data`
PoolFetchBody(k) ==
    /\ Working(k, "fetch")
    /\ \E data \in env.bodies :
          LET w == workers[k]
              guildCount == GuildCountOf(data)
              how == IF guildCount = Null THEN "novalue" ELSE "value"
          IN  /\ data = NominalBody \/ PoolFaulty(w)
              /\ budget' = IF data = NominalBody THEN budget ELSE budget - 1
              /\ poolRet' = [poolRet EXCEPT ![w.app] = Returned(w, how)]
              /\ IF ShouldRecord(guildCount, dbApps[w.app])
                 THEN /\ workers' = [workers EXCEPT ![k] =
                             [w EXCEPT !.st = "record", !.val = guildCount]]
                      /\ poolSunk' = [poolSunk EXCEPT ![w.app] =
                             Log(@, <<dbApps[w.app].bot_id, guildCount>>)]
                      /\ UNCHANGED <<cursor, poolFetched, poolClaimed>>
                 ELSE /\ GoOn(k, w)
                      /\ UNCHANGED poolSunk
    /\ UNCHANGED <<mainVars, env, dbApps, poolPc>>

\* the INSERT succeeds: the log line, then await next()
PoolInsertOk(k) ==
    /\ Working(k, "record")
    /\ GoOn(k, workers[k])
    /\ UNCHANGED <<mainVars, env, dbApps, budget, poolPc, poolRet, poolSunk>>

\* the INSERT rejects: the chain rejects, and with it Promise.all
PoolInsertFail(k) ==
    /\ Working(k, "record")
    /\ PoolFaulty(workers[k])
    /\ budget' = budget - 1
    /\ workers' = [workers EXCEPT ![k].st = "threw"]
    /\ poolPc' = "failed"
    /\ UNCHANGED <<mainVars, env, dbApps, cursor, poolFetched, poolClaimed, poolRet,
                   poolSunk>>

\* every chain has returned: Promise.all fulfils
PoolDone ==
    /\ poolPc = "running"
    /\ \A k \in DOMAIN workers : workers[k].st = "returned"
    /\ poolPc' = "done"
    /\ UNCHANGED <<mainVars, env, dbApps, budget, cursor, workers, poolFetched,
                   poolClaimed, poolRet, poolSunk>>

NextPool ==
    \/ PoolListOk
    \/ PoolListFail
    \/ \E k \in 1..concurrency :
          \/ PoolRateLimited(k)
          \/ PoolRateTimer(k)
          \/ PoolFetchError(k)
          \/ PoolErrTimer(k)
          \/ PoolFetchBody(k)
          \/ PoolInsertOk(k)
          \/ PoolInsertFail(k)
    \/ PoolDone

\* One run of the worker-pool revision over a short list, with faults.
InitPoolShort ==
    /\ dbApps \in UNION {AppLists(n) : n \in 0..MaxApps}
    /\ budget = PoolFaults
    /\ env = Env(DOMAIN dbApps, DOMAIN dbApps, {Absent, Header(<<"5">>)},
                 {NominalBody, Body(Null, <<7>>), Body(Null, Null)}, 0)

\* One run of the worker-pool revision over a list longer than the pool,
\* where no call goes wrong; only the first row and the rows beyond the pool
\* have a bot_id.
InitPoolLong ==
    /\ dbApps = [k \in 1..BatchApps |->
                    App(k, IF k = 1 \/ k > concurrency THEN "X" ELSE "")]
    /\ budget = 0
    /\ env = Env({}, {}, {}, {NominalBody}, 0)

InitPool ==
    /\ InitPoolShort \/ InitPoolLong
    /\ InitRuns
    /\ poolPc = "listing"
    /\ cursor = 0
    /\ workers = <<>>
    /\ poolFetched = [a \in DOMAIN dbApps |-> 0]
    /\ poolClaimed = [a \in DOMAIN dbApps |-> 0]
    /\ poolRet = [a \in DOMAIN dbApps |-> NoReturn]
    /\ poolSunk = [a \in DOMAIN dbApps |-> <<>>]

SpecPool == InitPool /\ [][NextPool]_vars

(* ---------------- properties ---------------- *)
Ids(r) == DOMAIN apps[r]
SlotsOf(r, a) == {k \in DOMAIN slots[r] : slots[r][k].app.id = a}
ResultsOf(r, a) == {k \in DOMAIN results[r] : results[r][k].id = a}

\* C1: when a run completes, its report holds exactly one result per listed
\* application, so successful + failed equals the length of the list.
C1_OneResultPerApp ==
    \A r \in Runs :
        pc[r] = "done" =>
            /\ report[r][1].successful + report[r][1].failed = Len(apps[r])
            /\ \A a \in Ids(r) : Cardinality(ResultsOf(r, a)) = 1

\* C2: within one run recordGuildCount is invoked at most once per
\* application, with the application's bot_id and the value fetched, and an
\* application that has resolved with a number has been recorded exactly once.
C2_RecordedExactlyOnce ==
    \A r \in Runs : \A a \in DOMAIN sunk[r] :
        /\ Len(sunk[r][a]) <= 1
        /\ \A k \in SlotsOf(r, a) :
              slots[r][k].st \in {"record", "ok"} =>
                  sunk[r][a] = << <<slots[r][k].app.bot_id, slots[r][k].val>> >>

\* the batch (0, 1, ...) of the application at position a (1, 2, ...)
BatchOf(a) == (a - 1) \div concurrencyLimit

\* applications of run r whose resolution is not finished: never fetched, in
\* flight, or failed and waiting for the next sub-round
Unfinished(r) ==
    {a \in Ids(r) :
        \/ fetchCount[r][a] = 0
        \/ \E k \in SlotsOf(r, a) : slots[r][k].st # "ok"}

\* C3: no application of a later batch is fetched before every application of
\* the earlier batches has finished resolving, sub-rounds included.
C3_BatchesSequential ==
    \A r \in Runs :
        LET unfinished == Unfinished(r)
        IN  \A b \in Ids(r) :
                fetchCount[r][b] > 0 =>
                    \A a \in unfinished : ~(BatchOf(a) < BatchOf(b))

C3_Witness ==
    /\ Len(apps[1]) > concurrencyLimit
    /\ fetchCount[1][Len(apps[1])] > 0
    /\ fetchCount[1][1] >= 2

\* C4: a call of fetchGuildCount that has met maxRetries errors and nothing
\* else has stopped: it fetches no more and its application holds a failed
\* result, with nothing sent to the sink by this call.
C4_StopsAfterMaxAttempts ==
    \A r \in Runs : \A k \in DOMAIN slots[r] :
        (slots[r][k].rates = 0 /\ slots[r][k].errs >= maxRetries) =>
            slots[r][k].st = "nov"

InFlight(r) == {k \in DOMAIN slots[r] : slots[r][k].st \in InFlightStates}

\* C5: at most concurrencyLimit applications of a run are being resolved at
\* any time.
C5_AtMostBatchSizeInFlight ==
    \A r \in Runs : Cardinality(InFlight(r)) <= concurrencyLimit

C5_Witness ==
    /\ Len(apps[1]) > concurrencyLimit
    /\ Cardinality(InFlight(1)) = concurrencyLimit

\* the claim's reading of Retry-After: a hint of h seconds when the header is
\* there and parseInt finds an integer h, no hint otherwise
HasHint(h) == h.present /\ ~parseInt(h.text).nan
HintSeconds(h) == parseInt(h.text).v

\* C6: the wait after a 429 is at least the hinted seconds when there is a
\* hint, and the current backoff delay when there is none.
C6_WaitAfter429 ==
    \A r \in Runs : \A k \in DOMAIN slots[r] :
        LET s == slots[r][k]
        IN  s.st = "rateSleep" =>
                IF HasHint(s.hdr)
                THEN ~s.wait.nan /\ s.wait.v >= HintSeconds(s.hdr) * 1000
                ELSE s.wait = Num(s.delay)

\* C8: an application whose fetch gave a 2xx body without a usable number is
\* never fetched again in the same run.
C8_NoValueIsTerminal ==
    [][\A r \in Runs : \A k \in DOMAIN slots[r] :
          (slots[r][k].st = "nov" /\ slots[r][k].app.bot_id # "") =>
              fetchCount'[r][slots[r][k].app.id] = fetchCount[r][slots[r][k].app.id]
      ]_vars

\* C9: an application whose insert was rejected is never fetched again in the
\* same run.
C9_SinkFailureNotRefetched ==
    [][\A r \in Runs : \A k \in DOMAIN slots[r] :
          slots[r][k].st = "rej" =>
              fetchCount'[r][slots[r][k].app.id] = fetchCount[r][slots[r][k].app.id]
      ]_vars

\* C10: a run whose listing was rejected has aborted before any batch: it has
\* fetched nothing, recorded nothing and has no report; its failure has reached
\* the caller, and the next cron tick of the window can still start a run.
C10_ListingFailureAborts ==
    \A r \in Runs :
        listed[r] = "rejected" =>
            /\ pc[r] = "failed"
            /\ slots[r] = <<>> /\ results[r] = <<>> /\ report[r] = <<>>
            /\ \A a \in DOMAIN fetchCount[r] :
                  fetchCount[r][a] = 0 /\ sunk[r][a] = <<>>
            /\ (r + 1 \in Runs /\ r <= env.ticks /\ pc[r + 1] = "idle")
                  => ENABLED CronTrigger(r + 1)

C10_Witness ==
    /\ listed[1] = "rejected"
    /\ pc[2] = "done"
    /\ report[2] # <<>> /\ report[2][1].successful = 1

\* C7: 429 responses never use up the attempts of fetchGuildCount: the
\* attempt counter counts errors only, and a call that has met no error never
\* returns null for lack of attempts.
C7_RateLimitedNeverExhausts ==
    /\ \A k \in DOMAIN workers : workers[k].attempt <= workers[k].errs
    /\ \A a \in DOMAIN poolRet :
          poolRet[a].ret = "exhausted" => poolRet[a].errs > 0

\* the first round of the current batch of run r has ended with every
\* application successful
FirstRoundAllOk(r) ==
    /\ rounds[r] = 1
    /\ pc[r] \in {"round", "batchSleep", "done"}
    /\ slots[r] # <<>>
    /\ \A k \in DOMAIN slots[r] : slots[r][k].st = "ok"

\* C11: when every application of a batch succeeds in the batch's first
\* round, the 2 s sub-round sleep is not entered and no further round of that
\* batch starts: the batch keeps its single round until the next batch.
C11_NoSubRoundWhenAllSucceed ==
    [][\A r \in Runs :
          FirstRoundAllOk(r) =>
              /\ pc'[r] # "subSleep"
              /\ (batchLog'[r] = batchLog[r] => rounds'[r] = 1)
      ]_vars

C11_Witness ==
    /\ Len(slots[1]) = concurrencyLimit
    /\ FirstRoundAllOk(1)
    /\ pc[1] = "batchSleep"

\* C12: a batch performs a bounded number of sub-rounds and then gives up on
\* the applications still pending, so a run ends even when an application
\* fails for ever.  Stated with the budget the specification recommends: at
\* most 3 sub-rounds after the first round of a batch.
C12_SubRoundsBounded ==
    \A r \in Runs : rounds[r] <= 1 + 3

\* the partition the claim describes: batch k (0, 1, ...) of a list of n
\* applications holds the positions 10k .. min(10k + 9, n - 1), in order
ExpectedBatch(k, n) ==
    LET first == concurrencyLimit * k
        last == Min(first + concurrencyLimit - 1, n - 1)
    IN  [j \in 1..(last - first + 1) |-> first + j - 1]
NumBatches(n) == (n + concurrencyLimit - 1) \div concurrencyLimit

\* C13: the batches a run enters are the consecutive slices of 10 of the list
\* in its order: the k-th batch entered holds the positions 10k .. min(10k+9,
\* N-1), and a run that completes has entered ceil(N/10) batches, so every
\* application is in exactly one batch and only the last batch may be shorter.
C13_BatchesPartitionList ==
    \A r \in Runs :
        LET n == Len(apps[r])
        IN  /\ Len(batchLog[r]) <= NumBatches(n)
            /\ \A k \in DOMAIN batchLog[r] :
                  batchLog[r][k] = ExpectedBatch(k - 1, n)
            /\ pc[r] = "done" => Len(batchLog[r]) = NumBatches(n)

C13_Witness ==
    /\ pc[1] = "done"
    /\ Len(batchLog[1]) = 2
    /\ Len(batchLog[1][1]) = concurrencyLimit
    /\ Len(batchLog[1][2]) < concurrencyLimit

\* the calls of fetchGuildCount that ended on a 2xx body
Answered(r) == {k \in DOMAIN slots[r] : slots[r][k].data # <<>>}

\* C14: on a 2xx body fetchGuildCount returns the directory guild count
\* whenever it is a number, the approximate member count only when the guild
\* count is not a number, and null only when neither is a number.
C14_GuildCountHasPriority ==
    \A r \in Runs : \A k \in Answered(r) :
        LET data == slots[r][k].data[1]
            got == slots[r][k].got
        IN  /\ data.guild_count # Null => got = data.guild_count
            /\ (data.guild_count = Null /\ data.approximate_member_count # Null)
                  => got = data.approximate_member_count
            /\ got = Null <=>
                  (data.guild_count = Null /\ data.approximate_member_count = Null)

C14_Witness ==
    \E k \in Answered(1) :
        /\ slots[1][k].data[1] = Body(<<42>>, <<7>>)
        /\ slots[1][k].got = <<42>>

\* every call of processApp of the window, as <<run, slot>>
Calls == UNION {{<<r, k>> : k \in DOMAIN slots[r]} : r \in Runs}
CallOf(c) == slots[c[1]][c[2]]

\* Two calls were fed the same outcomes so far: they resolve applications
\* with the same bot_id, have met as many TransientError and as many
\* RateLimited outcomes (the counters being exact below their cap), and stand
\* at the same point of fetchGuildCount or have returned on the same 2xx body.
SameOutcomes(s, t) ==
    /\ s.bot_id = t.bot_id
    /\ s.errs = t.errs /\ s.rates = t.rates
    /\ s.errs <= maxRetries /\ s.rates <= maxRetries
    /\ s.data = t.data
    /\ (s.data = <<>>) => (s.st = t.st)

\* the calls of the window up to what the claim compares
CallView(s) ==
    [bot_id |-> s.app.bot_id, errs |-> s.errs, rates |-> s.rates,
     data |-> s.data, st |-> s.st, delay |-> s.delay, got |-> s.got,
     val |-> s.val]
CallViews ==
    UNION {{CallView(slots[r][k]) : k \in DOMAIN slots[r]} : r \in Runs}

\* C15: two resolutions of an application that were fed the same fetch
\* outcomes agree on the backoff delay while they run and on the value and the
\* success flag they return, whatever the other calls of the same or of
\* another run did before or do at the same time.
C15_ResultDependsOnOwnOutcomes ==
    \A s, t \in CallViews :
        SameOutcomes(s, t) =>
            /\ s.delay = t.delay
            /\ s.got = t.got
            /\ (s.st \in {"ok", "nov"} /\ t.st \in {"ok", "nov"})
                  => (s.st = t.st /\ s.val = t.val)

\* two runs have resolved the same application on the same outcomes, the
\* first only in its second round
C15_Witness ==
    /\ rounds[1] >= 2
    /\ \E c, d \in Calls :
          /\ c[1] = 1 /\ d[1] = 2
          /\ CallOf(c).app = CallOf(d).app
          /\ CallOf(c).st = "ok" /\ CallOf(d).st = "ok"
          /\ SameOutcomes(CallView(CallOf(c)), CallView(CallOf(d)))

\* the applications of a round, in its order
AppsOf(ss) == [k \in 1..Len(ss) |-> ss[k].app]
\* the applications of a settled round that did not succeed, in its order
NotOk(ss) == AppsOf(SelectSeq(ss, LAMBDA s : s.st # "ok"))

\* C16: the round that follows the sub-round sleep resubmits exactly the
\* applications that did not succeed in the round before; an application that
\* has succeeded is given no new processApp call and no further
\* recordGuildCount call in that run.
C16_SubRoundResubmitsFailedOnly ==
    [][\A r \in Runs :
          /\ (pc[r] = "subSleep" /\ pc'[r] = "round") =>
                /\ AppsOf(slots'[r]) = NotOk(slots[r])
                /\ \A k \in DOMAIN slots'[r] : slots'[r][k].st = "fetch"
          /\ \A a \in succeeded[r] :
                /\ sunk'[r][a] = sunk[r][a]
                /\ \A k \in DOMAIN slots'[r] :
                      slots'[r][k].app.id = a =>
                          (k \in DOMAIN slots[r] /\ slots'[r][k] = slots[r][k])
      ]_vars

\* a sub-round runs for the one application of two that failed
C16_Witness ==
    /\ rounds[1] = 2
    /\ Len(apps[1]) = 2
    /\ succeeded[1] = {1}
    /\ AppsOf(slots[1]) = <<apps[1][2]>>

\* fetchGuildCount is running in the slot
Fetching(s) == s.st \in {"fetch", "rateSleep", "errSleep"}

RECURSIVE Doubled(_, _)
Doubled(d, n) == IF n = 0 THEN d ELSE Doubled(Min(2 * d, MaxDelay), n - 1)

\* the RateLimited and TransientError outcomes of the call whose sleep is over
Retried(s) ==
    s.errs + s.rates - (IF s.st \in {"rateSleep", "errSleep"} THEN 1 ELSE 0)

\* C17: the backoff delay of a running fetchGuildCount call is 1000 ms
\* replaced by min(2 * delay, 60000) once for every RateLimited or
\* TransientError outcome whose sleep is over (at least that when a counter of
\* the model is at its cap), so 1000 <= delay <= 60000; a step of the call
\* doubles it with the cap when a sleep ends and leaves it unchanged
\* otherwise, so it never decreases.
C17_DelayDoublesWithCap ==
    /\ [](\A r \in Runs : \A k \in DOMAIN slots[r] :
            LET s == slots[r][k]
            IN  Fetching(s) =>
                  /\ InitialDelay <= s.delay /\ s.delay <= MaxDelay
                  /\ IF s.errs <= maxRetries /\ s.rates <= maxRetries
                     THEN s.delay = Doubled(InitialDelay, Retried(s))
                     ELSE s.delay >= Doubled(InitialDelay, Retried(s)))
    /\ [][\A r \in Runs : \A k \in DOMAIN slots[r] :
            (/\ pc[r] = "round" /\ pc'[r] = "round"
             /\ Fetching(slots[r][k]) /\ Fetching(slots'[r][k])) =>
                /\ slots'[r][k].delay >= slots[r][k].delay
                /\ slots'[r][k].delay =
                      IF slots[r][k].st # "fetch" /\ slots'[r][k].st = "fetch"
                      THEN Min(2 * slots[r][k].delay, MaxDelay)
                      ELSE slots[r][k].delay
       ]_vars

\* a call whose delay has reached the cap
C17_Witness ==
    \E k \in DOMAIN slots[1] :
        /\ slots[1][k].st = "fetch"
        /\ slots[1][k].delay = MaxDelay
        /\ slots[1][k].errs + slots[1][k].rates = maxRetries + 1

\* C18: in every round of every batch the index given to processApp is the
\* position (0, 1, ...) of the application in the list of the run.
C18_IndexIsListPosition ==
    \A r \in Runs : \A k \in DOMAIN slots[r] :
        /\ slots[r][k].index + 1 \in DOMAIN apps[r]
        /\ apps[r][slots[r][k].index + 1] = slots[r][k].app

\* a sub-round from which the first application of the batch has gone
C18_Witness ==
    /\ rounds[1] >= 2
    /\ Len(slots[1]) = 1
    /\ slots[1][1].index = i[1] + 1

\* the chains of next() that are working on an application
Busy == {k \in DOMAIN workers : workers[k].st \in InFlightStates}

\* nothing was retried for the application at position a
NeverRetried(a) ==
    /\ poolRet[a].errs = 0 /\ poolRet[a].rates = 0
    /\ \A k \in Busy :
          workers[k].app = a => (workers[k].errs = 0 /\ workers[k].rates = 0)

\* C19: in the worker-pool revision every position of the list is claimed by
\* at most one chain of next() and the positions claimed are those below the
\* shared cursor, so no two chains work on the same application and none is
\* skipped; an application for which nothing is retried is fetched once; and
\* Promise.all fulfils only when every application was claimed once and its
\* fetchGuildCount call has returned.
C19_EachPositionClaimedOnce ==
    /\ cursor <= Len(dbApps)
    /\ \A a \in DOMAIN dbApps :
          /\ poolClaimed[a] = (IF a <= cursor THEN 1 ELSE 0)
          /\ NeverRetried(a) => poolFetched[a] = poolClaimed[a]
    /\ \A k, j \in Busy : workers[k].app = workers[j].app => k = j
    /\ poolPc = "done" =>
          \A a \in DOMAIN dbApps :
              poolClaimed[a] = 1 /\ poolRet[a].ret # "none"

\* a list longer than the pool is done, and a chain other than the first
\* took the last application
C19_Witness ==
    /\ poolPc = "done"
    /\ Len(dbApps) > concurrency
    /\ \E k \in DOMAIN workers : k > 1 /\ workers[k].app = Len(dbApps)

\* the runs of updateAllApplications that have started and not yet settled
ActiveRuns == {r \in Runs : pc[r] \in {"listing", "round", "subSleep", "batchSleep"}}

\* C20: at most one run of updateAllApplications is in progress at any time.
C20_OneRunAtATime ==
    Cardinality(ActiveRuns) <= 1

====
